---- MODULE Spec2Model ----
(***************************************************************************)
(* MistralChat (src/phi/model/mistral/mistral.py): the chat adapter's      *)
(* tool-call resolution loop, non-streaming (response) and streaming       *)
(* (response_stream), run against a remote chat-completion endpoint.       *)
(*                                                                         *)
(* One exchange is one call of response or response_stream by the caller,  *)
(* with all of its recursive rounds.  The endpoint is deterministic per    *)
(* round: what it sends in round r is recorded in script[r] the first time *)
(* round r is served and replayed when a second exchange (on a fresh copy  *)
(* of the same conversation prefix) reaches that round again.  A round is  *)
(* recorded as the sequence of deltas the streaming API sends for it; the  *)
(* non-streaming API returns the same round as one complete message.       *)
(*                                                                         *)
(* Python values: None is the string "None"; a list that is None or empty  *)
(* is <<>> (the code treats both alike, lines 138, 219, 290, 319).         *)
(*                                                                         *)
(* RedisStorage (src/libs/agno/agno/storage/redis.py) is modelled further  *)
(* down as a state machine of its own, RedisSpec, over the storage         *)
(* variables; the adapter's behaviours, Spec and FairSpec, leave the       *)
(* storage variables alone, and RedisSpec leaves the adapter's alone.      *)
(*                                                                         *)
(* The playground deployment helper (src/phi/playground/deploy.py with     *)
(* src/phi/api/playground.py) and the playground routes                    *)
(* (src/phi/playground/routes.py) are two more state machines, DeploySpec  *)
(* and RoutesSpec, each over variables of its own.                         *)
(***************************************************************************)
EXTENDS Integers, Sequences, FiniteSets, TLC

VARIABLES
    mode,             \* "response" | "stream": the operation the caller runs
    run_tools,        \* Model.run_tools
    show_tool_calls,  \* Model.show_tool_calls
    prefix,           \* the conversation the caller starts every exchange with
    messages,         \* the conversation (List[Message]) of this exchange
    script,           \* endpoint: the deltas of every round served so far
    scripted,         \* endpoint: number of rounds of script that are complete
    round,            \* rounds (frames of the recursion) started in this exchange
    pos,              \* deltas of the current round handed to the adapter
    pc,               \* "invoke" | "await" | "stream" | "done" | "failed"
    calls,            \* endpoint calls made in this exchange
    stack,            \* response: model_response.content of every suspended frame
    content_acc,      \* response_stream: assistant_message_content
    tool_calls_acc,   \* response_stream: assistant_message_tool_calls
    yielded,          \* response_stream: everything yielded to the caller, in order
    executed,         \* the function calls executed in this exchange, in order
    result,           \* response: content of the ModelResponse returned to the caller
    error,            \* the exception that escaped to the caller, None if none
    metrics,          \* self.metrics["response_times"]: how many times were recorded
    tools,            \* response: the local variable `tools` of the running frame
    sent,             \* the requests sent to the endpoint in this exchange, in order
    prev              \* the finished first exchange, <<>> while it is running

\* RedisStorage (src/libs/agno/agno/storage/redis.py).
VARIABLES
    redis,            \* the Redis database: the value of every key that exists
    storage_mode,     \* self.mode: "agent" | "team" | "workflow" | "workflow_v2"
    expire,           \* self.expire: time to live of the keys, Optional[int]
    now,              \* int(time.time())
    call              \* the storage call that has just returned, with what it
                      \* returned; NoCall once the caller has taken the result

chat_vars == <<mode, run_tools, show_tool_calls, prefix, messages, script, scripted,
               round, pos, pc, calls, stack, content_acc, tool_calls_acc, yielded,
               executed, result, error, metrics, tools, sent, prev>>

storage_vars == <<redis, storage_mode, expire, now, call>>

\* The playground deployment helper (src/phi/playground/deploy.py) and the
\* API call behind it (src/phi/api/playground.py).
VARIABLES
    root,             \* the directory to deploy: "dir" | "file" | "absent"
    artifact,         \* the tar artifact on disk: <<>> if absent, else <<size>>
    posted,           \* HTTP requests sent by the last call
    display,          \* live_display: the panels shown by the last deployment
    steps,            \* the steps the last deployment started, in order
    deploy_call       \* the last call, its circumstances and its outcome

deploy_vars == <<root, artifact, posted, display, steps, deploy_call>>

\* The playground routes (src/phi/playground/routes.py).
VARIABLES
    agent_storage,    \* agent.storage of every agent of the playground
    route_call        \* the last request, with the response it got

routes_vars == <<agent_storage, route_call>>

vars == <<chat_vars, storage_vars, deploy_vars, routes_vars>>

\* Total number of deltas the endpoint sends over all rounds of the script.
MaxDeltas == 2

None == "None"

Modes == {"response", "stream"}

\* self.functions: the registry of callable tools.
Functions == {"get_price"}

\* JSON argument payloads.  ArgsHead \o ArgsTail = ArgsOk: one payload split
\* over two streamed fragments, each of which alone is malformed JSON.
ArgsOk == "{\"symbol\":\"NVDA\"}"
ArgsHead == "{\"symbol\":"
ArgsTail == "\"NVDA\"}"
ArgsRaise == "{\"symbol\":\"\"}"
ArgsMismatch == "{\"ticker\":1}"

\* Text fragments the endpoint may send: some text, or the empty string.
Fragments == {"a", ""}

NotFoundText == "Could not find function to call."

Sum(f, S) ==
    LET RECURSIVE Go(_)
        Go(T) == IF T = {} THEN 0
                 ELSE LET x == CHOOSE y \in T : TRUE IN f[x] + Go(T \ {x})
    IN Go(S)

\* Number of deltas in the script.
TotalDeltas(sc) == Sum([r \in DOMAIN sc |-> Len(sc[r])], DOMAIN sc)

\* All tool-call fragments of the script, in the order sent.
RECURSIVE FragmentsOf(_)
FragmentsOf(ds) ==
    IF ds = <<>> THEN <<>> ELSE Head(ds).tool_calls \o FragmentsOf(Tail(ds))

RECURSIVE AllFragments(_)
AllFragments(sc) ==
    IF sc = <<>> THEN <<>> ELSE FragmentsOf(Head(sc)) \o AllFragments(Tail(sc))

IdsOf(frags) == {frags[i].id : i \in DOMAIN frags}

(***************************************************************************)
(* The remote endpoint.                                                    *)
(***************************************************************************)

TextDelta(c) == [content |-> c, tool_calls |-> <<>>]

Delta(c, id, name, arguments) ==
    [content |-> c,
     tool_calls |-> <<[id |-> id, name |-> name, arguments |-> arguments]>>]

ToolDelta(id, name, arguments) == Delta(None, id, name, arguments)

\* Call identifiers are unique per request: c1, c2, ...
FreshId(sc) == "c" \o ToString(Cardinality(IdsOf(AllFragments(sc))) + 1)

\* The requests a first fragment may open: (function name, argument payload).
FreshRequests ==
    {<<"get_price", ArgsOk>>, <<"get_price", ArgsRaise>>,
     <<"get_price", ArgsMismatch>>, <<"get_price", ArgsHead>>,
     <<"get_weather", ArgsOk>>}

\* The deltas the endpoint may send next in the round ds of script sc: a text
\* fragment, the first fragment of a new tool call
\* (a whole call may come with text), or the second fragment of the tool call
\* whose first fragment was sent last in this round.
NewDeltas(sc, ds) ==
    {TextDelta(c) : c \in Fragments}
    \cup {ToolDelta(FreshId(sc), q[1], q[2]) : q \in FreshRequests}
    \cup {Delta(c, FreshId(sc), "get_price", ArgsOk) : c \in Fragments}
    \cup (IF FragmentsOf(ds) = <<>> THEN {}
          ELSE LET last == FragmentsOf(ds)[Len(FragmentsOf(ds))]
               IN IF last.arguments = ArgsHead
                  THEN {ToolDelta(last.id, last.name, ArgsTail)}
                  ELSE {})

\* The text of a round: None when no delta carried text.
RECURSIVE TextOf(_)
TextOf(ds) ==
    IF ds = <<>> THEN None
    ELSE LET rest == TextOf(Tail(ds))
             c == Head(ds).content
         IN IF c = None THEN rest
            ELSE IF rest = None THEN c ELSE c \o rest

\* The tool-call requests of a round: the fragments joined by identifier, one
\* request per identifier, in the order the identifiers first appear.
RECURSIVE JoinById(_)
JoinById(frags) ==
    IF frags = <<>> THEN <<>>
    ELSE LET f == Head(frags)
             same == SelectSeq(Tail(frags), LAMBDA g : g.id = f.id)
             others == SelectSeq(Tail(frags), LAMBDA g : g.id # f.id)
             RECURSIVE Cat(_)
             Cat(gs) == IF gs = <<>> THEN "" ELSE Head(gs).arguments \o Cat(Tail(gs))
         IN <<[id |-> f.id, name |-> f.name,
               arguments |-> f.arguments \o Cat(same)]>> \o JoinById(others)

\* response.choices[0].message of the non-streaming API for a round.
Complete(ds) ==
    [role |-> "assistant", content |-> TextOf(ds),
     tool_calls |-> JoinById(FragmentsOf(ds))]

(***************************************************************************)
(* Messages, dictionaries and the helpers of the framework.                *)
(***************************************************************************)

Message(role, content, tool_calls, tool_call_id) ==
    [role |-> role, content |-> content, tool_calls |-> tool_calls,
     tool_call_id |-> tool_call_id]

\* dict.get(key): None for a key the dictionary does not hold.
Get(d, key) == IF key \in DOMAIN d THEN d[key] ELSE None

\* json.loads: ok is FALSE where it raises.
json_loads(s) ==
    CASE s = ArgsOk -> [ok |-> TRUE, value |-> [symbol |-> "NVDA"]]
      [] s = ArgsRaise -> [ok |-> TRUE, value |-> [symbol |-> ""]]
      [] s = ArgsMismatch -> [ok |-> TRUE, value |-> [ticker |-> 1]]
      [] OTHER -> [ok |-> FALSE, value |-> [symbol |-> None]]

\* The registered tool: get_price(symbol) raises on an empty symbol.
get_price(parameters) ==
    IF parameters.symbol = ""
    THEN [success |-> FALSE, text |-> "symbol must not be empty"]
    ELSE [success |-> TRUE, text |-> "118.50"]

\* phi.utils.tools.get_function_call_for_tool_call: found is FALSE where it
\* returns None; error is None for a FunctionCall ready to run.
get_function_call_for_tool_call(tool_call, functions) ==
    LET fn == tool_call.function
        parsed == IF "parameters" \in DOMAIN fn
                  THEN [ok |-> TRUE, value |-> fn.parameters]
                  ELSE json_loads(fn.arguments)
    IN IF fn.name \notin functions
       THEN [found |-> FALSE, name |-> fn.name, arguments |-> parsed.value,
             call_id |-> Get(tool_call, "id"), error |-> None]
       ELSE [found |-> TRUE, name |-> fn.name, arguments |-> parsed.value,
             call_id |-> Get(tool_call, "id"),
             error |-> IF ~parsed.ok
                       THEN "Error while decoding function arguments"
                       ELSE IF "symbol" \notin DOMAIN parsed.value
                       THEN "Error while validating function arguments"
                       ELSE None]

\* FunctionCall.get_call_str
get_call_str(fc) == fc.name \o "(symbol=" \o fc.arguments.symbol \o ")"

\* Model.run_function_calls: runs the calls one after the other; each yields
\* one tool-role message with the result or the captured error.
RECURSIVE run_function_calls(_)
run_function_calls(function_calls) ==
    IF function_calls = <<>> THEN <<>>
    ELSE LET fc == Head(function_calls)
         IN <<Message("tool", get_price(fc.arguments).text, <<>>, fc.call_id)>>
            \o run_function_calls(Tail(function_calls))

\* Message.get_content_string on a str content.
get_content_string(content) == content

(***************************************************************************)
(* MistralChat: the steps of response and response_stream.                 *)
(***************************************************************************)

\* The tools argument of a caller that registered the tools of Functions,
\* and the Python values a frame may hold in `tools`: each is given by its
\* type and what it holds.
ToolSchema == [type |-> "List[Function]", holds |-> "get_price(symbol)"]

NoTools == [type |-> "NoneType", holds |-> None]

\* invoke, lines 109-115: the request sent by client.chat.complete.
invoke(msgs, tools_argument) == [messages |-> msgs, tools |-> tools_argument]

\* invoke_stream, lines 117-122: the request sent by client.chat.stream.
invoke_stream(msgs) == [messages |-> msgs, tools |-> NoTools]

\* response, line 221: "for tools in response_tool_calls" binds the frame's
\* `tools` to every tool call in turn and leaves it bound to the last one.
LoopVariable(tools_argument, response_tool_calls) ==
    IF response_tool_calls = <<>> THEN tools_argument
    ELSE [type |-> "ToolCall",
          holds |-> response_tool_calls[Len(response_tool_calls)].id]

\* response, lines 218-232: the tool-call dictionaries of the assistant
\* message.  json.loads raises on a malformed payload; the dictionaries hold
\* "type" and "function" only.
ResponseToolCalls(response_tool_calls) ==
    [raised |-> \E i \in DOMAIN response_tool_calls :
                    ~json_loads(response_tool_calls[i].arguments).ok,
     tool_calls |->
        [i \in DOMAIN response_tool_calls |->
            [type |-> "function",
             function |->
                [name |-> response_tool_calls[i].name,
                 parameters |-> json_loads(response_tool_calls[i].arguments).value]]]]

\* response_stream, lines 290-293: the fragments of a delta are added to the
\* tool calls assembled so far.
ExtendToolCalls(assistant_message_tool_calls, response_tool_calls) ==
    assistant_message_tool_calls \o response_tool_calls

\* response_stream, line 305: t.model_dump() of every assembled tool call.
StreamToolCalls(assistant_message_tool_calls) ==
    [i \in DOMAIN assistant_message_tool_calls |->
        [id |-> assistant_message_tool_calls[i].id,
         type |-> "function",
         function |->
            [name |-> assistant_message_tool_calls[i].name,
             arguments |-> assistant_message_tool_calls[i].arguments]]]

\* A variant of YieldContent that hands the newest fragment to the caller
\* ahead of the earlier ones.
YieldContent_Reordered(out, response_content) ==
    IF response_content # None
    THEN <<[notice |-> FALSE, text |-> response_content]>> \o out
    ELSE out

\* response_stream, lines 285-287: a delta's text is yielded as it arrives.
YieldContent(out, response_content) ==
    IF response_content # None
    THEN Append(out, [notice |-> FALSE, text |-> response_content])
    ELSE out

\* A variant of AccumulateContent that keeps only the latest fragment.
AccumulateContent_KeepsLatest(assistant_message_content, response_content) ==
    IF response_content # None
    THEN response_content
    ELSE assistant_message_content

\* response_stream, lines 285-286: and added to the text of the message.
AccumulateContent(assistant_message_content, response_content) ==
    IF response_content # None
    THEN assistant_message_content \o response_content
    ELSE assistant_message_content

\* A variant of ResolveToolCalls that puts every later tool call ahead of
\* the earlier ones, in the error messages and in the queue.
RECURSIVE ResolveToolCalls_NewestFirst(_)
ResolveToolCalls_NewestFirst(tool_calls) ==
    IF tool_calls = <<>> THEN [messages |-> <<>>, function_calls_to_run |-> <<>>]
    ELSE LET tool_call == Head(tool_calls)
             _tool_call_id == Get(tool_call, "id")
             _function_call == get_function_call_for_tool_call(tool_call, Functions)
             rest == ResolveToolCalls_NewestFirst(Tail(tool_calls))
         IN IF ~_function_call.found
            THEN [rest EXCEPT !.messages =
                    @ \o <<Message("tool", NotFoundText, <<>>, _tool_call_id)>>]
            ELSE IF _function_call.error # None
            THEN [rest EXCEPT !.messages =
                    @ \o <<Message("tool", _function_call.error, <<>>, _tool_call_id)>>]
            ELSE [rest EXCEPT !.function_calls_to_run = @ \o <<_function_call>>]

\* _handle_tool_calls, lines 151-173: the loop over the tool calls.  An error
\* message is appended to the conversation inside the loop; a call ready to
\* run is queued.
RECURSIVE ResolveToolCalls(_)
ResolveToolCalls(tool_calls) ==
    IF tool_calls = <<>> THEN [messages |-> <<>>, function_calls_to_run |-> <<>>]
    ELSE LET tool_call == Head(tool_calls)
             _tool_call_id == Get(tool_call, "id")
             _function_call == get_function_call_for_tool_call(tool_call, Functions)
             rest == ResolveToolCalls(Tail(tool_calls))
         IN IF ~_function_call.found
            THEN [rest EXCEPT !.messages =
                    <<Message("tool", NotFoundText, <<>>, _tool_call_id)>> \o @]
            ELSE IF _function_call.error # None
            THEN [rest EXCEPT !.messages =
                    <<Message("tool", _function_call.error, <<>>, _tool_call_id)>> \o @]
            ELSE [rest EXCEPT !.function_calls_to_run = <<_function_call>> \o @]

\* response_stream, lines 321-336: the same loop in the streaming path (its
\* error message for invalid arguments also sets tool_call_error, a field the
\* conversation model does not carry).
RECURSIVE StreamResolveToolCalls(_)
StreamResolveToolCalls(tool_calls) ==
    IF tool_calls = <<>> THEN [messages |-> <<>>, function_calls_to_run |-> <<>>]
    ELSE LET tool_call == Head(tool_calls)
             _tool_call_id == Get(tool_call, "id")
             _function_call == get_function_call_for_tool_call(tool_call, Functions)
             rest == StreamResolveToolCalls(Tail(tool_calls))
         IN IF ~_function_call.found
            THEN [rest EXCEPT !.messages =
                    <<Message("tool", NotFoundText, <<>>, _tool_call_id)>> \o @]
            ELSE IF _function_call.error # None
            THEN [rest EXCEPT !.messages =
                    <<Message("tool", _function_call.error, <<>>, _tool_call_id)>> \o @]
            ELSE [rest EXCEPT !.function_calls_to_run = <<_function_call>> \o @]

RECURSIVE CallLines(_)
CallLines(function_calls) ==
    IF function_calls = <<>> THEN <<>>
    ELSE <<"\n - " \o get_call_str(Head(function_calls))>>
         \o CallLines(Tail(function_calls))

RECURSIVE Concat(_)
Concat(strs) == IF strs = <<>> THEN "" ELSE Head(strs) \o Concat(Tail(strs))

\* _handle_tool_calls, lines 147 and 175-179: model_response.content after the
\* tool calls of a frame.
FrameContent(function_calls_to_run) ==
    IF show_tool_calls
    THEN "" \o "\nRunning:" \o Concat(CallLines(function_calls_to_run)) \o "\n\n"
    ELSE ""

\* response_stream, lines 338-345: the notices yielded before the calls run.
StreamNotices(function_calls_to_run) ==
    LET Notice(t) == [notice |-> TRUE, text |-> t]
    IN IF ~show_tool_calls \/ function_calls_to_run = <<>> THEN <<>>
       ELSE IF Len(function_calls_to_run) = 1
       THEN <<Notice("\n - Running: " \o get_call_str(function_calls_to_run[1]) \o "\n\n")>>
       ELSE <<Notice("\nRunning:")>>
            \o [i \in DOMAIN function_calls_to_run |->
                    Notice(CallLines(function_calls_to_run)[i])]
            \o <<Notice("\n\n")>>

\* A variant of HandleToolCalls that builds the conversation anew from the
\* tool-role messages of the round.
HandleToolCalls_Rebuilds(assistant_message, msgs) ==
    IF Len(assistant_message.tool_calls) > 0 /\ run_tools
    THEN LET r == ResolveToolCalls(assistant_message.tool_calls)
         IN [handled |-> TRUE,
             content |-> FrameContent(r.function_calls_to_run),
             messages |-> r.messages
                          \o run_function_calls(r.function_calls_to_run),
             ran |-> r.function_calls_to_run]
    ELSE [handled |-> FALSE, content |-> None, messages |-> msgs, ran |-> <<>>]

\* A variant of HandleToolCalls that does not test for an empty list of
\* tool calls.
HandleToolCalls_NoEmptyTest(assistant_message, msgs) ==
    IF run_tools
    THEN LET r == ResolveToolCalls(assistant_message.tool_calls)
         IN [handled |-> TRUE,
             content |-> FrameContent(r.function_calls_to_run),
             messages |-> msgs \o r.messages
                          \o run_function_calls(r.function_calls_to_run),
             ran |-> r.function_calls_to_run]
    ELSE [handled |-> FALSE, content |-> None, messages |-> msgs, ran |-> <<>>]

\* _handle_tool_calls, lines 124-190, on the conversation msgs that already
\* ends with assistant_message: handled is FALSE where it returns None.
HandleToolCalls(assistant_message, msgs) ==
    IF Len(assistant_message.tool_calls) > 0 /\ run_tools
    THEN LET r == ResolveToolCalls(assistant_message.tool_calls)
         IN [handled |-> TRUE,
             content |-> FrameContent(r.function_calls_to_run),
             messages |-> msgs \o r.messages
                          \o run_function_calls(r.function_calls_to_run),
             ran |-> r.function_calls_to_run]
    ELSE [handled |-> FALSE, content |-> None, messages |-> msgs, ran |-> <<>>]

\* A variant of FrameReturn that forgets the content of the recursive call.
FrameReturn_DropsInner(model_response_content, response_after_tool_calls_content) ==
    model_response_content

\* response, lines 249-254: a frame returns its own content followed by the
\* content its recursive call returned.
FrameReturn(model_response_content, response_after_tool_calls_content) ==
    IF response_after_tool_calls_content # None
    THEN model_response_content \o response_after_tool_calls_content
    ELSE model_response_content

\* The suspended frames return one after the other, innermost first.
RECURSIVE Unwind(_, _)
Unwind(frames, content) ==
    IF frames = <<>> THEN content
    ELSE Unwind(SubSeq(frames, 1, Len(frames) - 1),
                FrameReturn(frames[Len(frames)], content))

\* response, lines 236-239, and response_stream, lines 309-312: the elapsed
\* time of the endpoint call is added to self.metrics["response_times"], which
\* the adapter keeps from one exchange to the next.
RecordResponseTime(response_times) == response_times + 1

\* A variant of FinalContent that returns the text only while the adapter has
\* recorded no response time yet.
FinalContent_OnlyFirstTime(assistant_message) ==
    IF assistant_message.content # None /\ metrics = 0
    THEN get_content_string(assistant_message.content)
    ELSE None

\* A variant of FinalContent that never copies the assistant's text.
FinalContent_DropsText(assistant_message) == None

\* response, lines 257-258: the content of a frame without tool calls to run.
FinalContent(assistant_message) ==
    IF assistant_message.content # None
    THEN get_content_string(assistant_message.content)
    ELSE None

(***************************************************************************)
(* RedisStorage (src/libs/agno/agno/storage/redis.py): sessions kept as    *)
(* JSON values under the keys "<prefix>:<session_id>" of a Redis database. *)
(*                                                                         *)
(* Python values: an Optional[int] is <<>> for None and <<n>> for n; an    *)
(* Optional[Session] is <<>> for None and <<s>> for the session s.         *)
(***************************************************************************)

\* The latest second the clock reaches.
MaxTime == 2

\* get_recent_sessions, line 222: the default of limit.
DefaultLimit == 2

StorageModes == {"agent", "team", "workflow", "workflow_v2"}

SessionIds == {"s1", "s2"}

UserIds == {"u1", "u2"}

EntityIds == {"e1", "e2"}

\* The filters a caller asks for: none, or one user and one entity (which
\* of the two users or entities makes no difference).
UserFilters == {None, "u1"}

EntityFilters == {None, "e1"}

\* self.prefix
KeyPrefix == "sessions"

NoneInt == <<>>

Some(n) == <<n>>

\* self.expire: no expiry, or a time to live in seconds.
Expirations == {NoneInt, Some(60)}

Limits == {NoneInt} \cup {Some(n) : n \in 0 .. DefaultLimit}

\* "if x" on an Optional[str].
Truthy(x) == x # None /\ x # ""

\* _get_key, lines 66-68: f"{self.prefix}:{session_id}", kept in its two parts.
_get_key(session_id) == [prefix |-> KeyPrefix, session_id |-> session_id]

\* scan_iter(match=f"{self.prefix}:*"): the keys under the prefix.
scan_iter(db) == {key \in DOMAIN db : key.prefix = KeyPrefix}

\* The orders in which a scan may hand out the keys S.
RECURSIVE ScanOrders(_)
ScanOrders(S) ==
    IF S = {} THEN {<<>>}
    ELSE UNION {{<<key>> \o rest : rest \in ScanOrders(S \ {key})} : key \in S}

\* serialize, lines 70-72, and deserialize, lines 74-76: ok is FALSE where
\* json.loads raises.
serialize(data) == [encoding |-> "json", data |-> data]

NotJson == [encoding |-> "other", data |-> "?"]

deserialize(value) ==
    IF value.encoding = "json" THEN [ok |-> TRUE, value |-> value.data]
    ELSE [ok |-> FALSE, value |-> "?"]

\* The session classes of the four modes and the field that holds the
\* entity of a session.
SessionClass(m) ==
    CASE m = "agent" -> "AgentSession"
      [] m = "team" -> "TeamSession"
      [] m = "workflow" -> "WorkflowSession"
      [] m = "workflow_v2" -> "WorkflowSessionV2"

\* The dictionary of a session of mode m.
SessionDict(m, session_id, user_id, entity_id, created_at, updated_at) ==
    CASE m = "agent" ->
            [session_id |-> session_id, user_id |-> user_id, agent_id |-> entity_id,
             created_at |-> created_at, updated_at |-> updated_at]
      [] m = "team" ->
            [session_id |-> session_id, user_id |-> user_id, team_id |-> entity_id,
             created_at |-> created_at, updated_at |-> updated_at]
      [] m \in {"workflow", "workflow_v2"} ->
            [session_id |-> session_id, user_id |-> user_id, workflow_id |-> entity_id,
             created_at |-> created_at, updated_at |-> updated_at]

\* Session.from_dict of the class cls, and asdict / to_dict of a session.
from_dict(cls, data) == [class |-> cls, fields |-> data]

asdict(session) == session.fields

\* The sessions a caller may hand to upsert at time t: created earlier or
\* now, or without a creation time yet.
Sessions(m, t) ==
    {from_dict(SessionClass(m), SessionDict(m, sid, uid, eid, c, NoneInt)) :
        sid \in SessionIds, uid \in UserIds, eid \in EntityIds,
        c \in {NoneInt} \cup {Some(n) : n \in 1 .. t}}

\* A variant of read that does not look at the user of the stored session.
read_AnyUser(db, m, session_id, user_id, fails) ==
    IF fails THEN <<>>
    ELSE IF _get_key(session_id) \notin DOMAIN db THEN <<>>
    ELSE LET session_data == deserialize(db[_get_key(session_id)])
         IN IF ~session_data.ok THEN <<>>
            ELSE <<from_dict(SessionClass(m), session_data.value)>>

\* read, lines 91-113.
read(db, m, session_id, user_id, fails) ==
    IF fails THEN <<>>
    ELSE IF _get_key(session_id) \notin DOMAIN db THEN <<>>
    ELSE LET session_data == deserialize(db[_get_key(session_id)])
         IN IF ~session_data.ok THEN <<>>
            ELSE IF Truthy(user_id) /\ Get(session_data.value, "user_id") # user_id
            THEN <<>>
            ELSE <<from_dict(SessionClass(m), session_data.value)>>

\* get_all_session_ids, lines 124-149: whether the loop keeps data.
KeepsId(m, data, user_id, entity_id) ==
    IF Truthy(user_id) \/ Truthy(entity_id)
    THEN IF Truthy(user_id) /\ Truthy(entity_id)
         THEN \/ m = "agent" /\ data.agent_id = entity_id /\ data.user_id = user_id
              \/ m = "team" /\ data.team_id = entity_id /\ data.user_id = user_id
              \/ m = "workflow" /\ data.workflow_id = entity_id /\ data.user_id = user_id
              \/ m = "workflow_v2" /\ data.workflow_id = entity_id
         ELSE IF Truthy(user_id) /\ data.user_id = user_id
         THEN TRUE
         ELSE IF Truthy(entity_id)
         THEN \/ m = "agent" /\ data.agent_id = entity_id
              \/ m = "team" /\ data.team_id = entity_id
              \/ m = "workflow" /\ data.workflow_id = entity_id
              \/ m = "workflow_v2" /\ data.workflow_id = entity_id
         ELSE FALSE
    ELSE TRUE

\* get_all_sessions, lines 164-211: whether the loop keeps data.
KeepsSession(m, data, user_id, entity_id) ==
    IF Truthy(user_id) \/ Truthy(entity_id)
    THEN IF Truthy(user_id) /\ Truthy(entity_id)
         THEN \/ m = "agent" /\ data.agent_id = entity_id /\ data.user_id = user_id
              \/ m = "team" /\ data.team_id = entity_id /\ data.user_id = user_id
              \/ m = "workflow" /\ data.workflow_id = entity_id /\ data.user_id = user_id
              \/ m = "workflow_v2" /\ data.workflow_id = entity_id
         ELSE IF Truthy(user_id) /\ data.user_id = user_id
         THEN \/ m = "agent"
              \/ m = "team"
              \/ m = "workflow"
              \/ m = "workflow_v2" /\ data.workflow_id = entity_id
         ELSE IF Truthy(entity_id)
         THEN \/ m = "agent" /\ data.agent_id = entity_id
              \/ m = "team" /\ data.team_id = entity_id
              \/ m = "workflow" /\ data.workflow_id = entity_id
              \/ m = "workflow_v2" /\ data.workflow_id = entity_id
         ELSE FALSE
    ELSE TRUE

\* get_all_session_ids, lines 115-154, scanning the keys in the order keys:
\* an exception ends the scan and what was collected is returned.
RECURSIVE get_all_session_ids(_, _, _, _, _)
get_all_session_ids(db, m, keys, user_id, entity_id) ==
    IF keys = <<>> THEN <<>>
    ELSE LET data == deserialize(db[Head(keys)])
         IN IF ~data.ok THEN <<>>
            ELSE (IF KeepsId(m, data.value, user_id, entity_id)
                  THEN <<data.value.session_id>> ELSE <<>>)
                 \o get_all_session_ids(db, m, Tail(keys), user_id, entity_id)

\* get_all_sessions, lines 156-216, in the same way.
RECURSIVE get_all_sessions(_, _, _, _, _)
get_all_sessions(db, m, keys, user_id, entity_id) ==
    IF keys = <<>> THEN <<>>
    ELSE LET data == deserialize(db[Head(keys)])
         IN IF ~data.ok THEN <<>>
            ELSE (IF KeepsSession(m, data.value, user_id, entity_id)
                  THEN <<from_dict(SessionClass(m), data.value)>> ELSE <<>>)
                 \o get_all_sessions(db, m, Tail(keys), user_id, entity_id)

\* get_recent_sessions, lines 244-256: whether the loop skips data.
Skips(m, data, user_id, entity_id) ==
    \/ Truthy(user_id) /\ data.user_id # user_id
    \/ /\ Truthy(entity_id)
       /\ \/ m = "agent" /\ data.agent_id # entity_id
          \/ m = "team" /\ data.team_id # entity_id
          \/ m = "workflow" /\ data.workflow_id # entity_id
          \/ m = "workflow_v2" /\ data.workflow_id # entity_id

\* get_recent_sessions, lines 240-263: the (created_at, data) pairs
\* collected; a value that does not decode is passed over.
RECURSIVE Collect(_, _, _, _, _)
Collect(db, m, keys, user_id, entity_id) ==
    IF keys = <<>> THEN <<>>
    ELSE LET data == deserialize(db[Head(keys)])
         IN (IF ~data.ok \/ Skips(m, data.value, user_id, entity_id) THEN <<>>
             ELSE <<<<data.value.created_at[1], data.value>>>>)
            \o Collect(db, m, Tail(keys), user_id, entity_id)

\* A variant of SortDescending that sorts the earliest first.
RECURSIVE SortDescending_EarliestFirst(_)
SortDescending_EarliestFirst(pairs) ==
    IF pairs = <<>> THEN <<>>
    ELSE LET rest == SortDescending_EarliestFirst(Tail(pairs))
             before == SelectSeq(rest, LAMBDA p : p[1] < Head(pairs)[1])
             after == SelectSeq(rest, LAMBDA p : p[1] >= Head(pairs)[1])
         IN before \o <<Head(pairs)>> \o after

\* list.sort(key=lambda x: x[0], reverse=True), line 266: stable, descending.
RECURSIVE SortDescending(_)
SortDescending(pairs) ==
    IF pairs = <<>> THEN <<>>
    ELSE LET rest == SortDescending(Tail(pairs))
             before == SelectSeq(rest, LAMBDA p : p[1] > Head(pairs)[1])
             after == SelectSeq(rest, LAMBDA p : p[1] <= Head(pairs)[1])
         IN before \o <<Head(pairs)>> \o after

\* session_data[:limit], lines 267-268, for a limit that is not negative.
Slice(pairs, limit) ==
    IF limit = NoneInt THEN pairs
    ELSE SubSeq(pairs, 1, IF limit[1] < Len(pairs) THEN limit[1] ELSE Len(pairs))

\* get_recent_sessions, lines 218-287.
get_recent_sessions(db, m, keys, user_id, entity_id, limit) ==
    LET session_data == Slice(SortDescending(Collect(db, m, keys, user_id, entity_id)),
                              limit)
    IN [i \in DOMAIN session_data |-> from_dict(SessionClass(m), session_data[i][2])]

\* upsert, lines 292-298: the dictionary written at time t.
UpsertData(session, t) ==
    LET data == [asdict(session) EXCEPT !.updated_at = Some(t)]
    IN IF data.created_at = NoneInt
       THEN [data EXCEPT !.created_at = data.updated_at]
       ELSE data

\* redis_client.set and redis_client.delete.
Set(db, key, value) ==
    [k \in DOMAIN db \cup {key} |-> IF k = key THEN value ELSE db[k]]

Delete(db, keys) == [k \in DOMAIN db \ keys |-> db[k]]

\* What the storage variables hold while no storage is in use.
NoCall == [name |-> "none", session_id |-> None, user_id |-> None,
           entity_id |-> None, limit |-> NoneInt, failed |-> FALSE,
           arg |-> <<>>, ret |-> <<>>]

(***************************************************************************)
(* The playground deployment helper (src/phi/playground/deploy.py) and     *)
(* start_playground_app_deploy (src/phi/api/playground.py).                *)
(*                                                                         *)
(* A call is a record [raised, ...]: raised is the type of the exception   *)
(* that left the function, None if it returned.  The message of an         *)
(* exception, str(e), is modelled by its type.                             *)
(***************************************************************************)

\* max_size, line 59 of api/playground.py.
max_size == 100 * 1024 * 1024

\* Sizes of the artifact: a small file, a file of exactly the limit and a
\* file one byte over it.
Sizes == {1, max_size, max_size + 1}

\* The artifact path on disk: no file, or a file of some size.
Files == {<<>>} \cup {<<n>> : n \in Sizes}

\* What is at the path `root`.
Roots == {"dir", "file", "absent"}

\* num_runs > 10, line 243 of deploy.py.
MaxRuns == 10

\* The parameters of start_playground_app_deploy, all required (line 38).
Parameters == {"app", "name", "artifact_path", "dockerfile"}

\* The keyword arguments start_deploy passes, line 131 of deploy.py.
StartDeployArguments == {"name", "artifact_path"}

\* What happens once the request is built: the artifact cannot be opened,
\* the transport fails, the API answers with an invalid response, with a
\* body that is not JSON, or with a valid response.
ApiOutcomes == {"open_raises", "post_raises", "invalid", "json_raises", "valid"}

\* What happens when the tar file is written: tarfile.open fails, tar.add
\* fails, or both succeed.
TarOutcomes == {"open_raises", "add_raises", "ok"}

\* artifact_path.stat().st_size >= max_size: the limit itself is rejected.
TooLarge_LimitRejected(size) ==
    size >= max_size

\* artifact_path.stat().st_size > max_size, line 60.
TooLarge(size) ==
    size > max_size

\* except Exception as e: raise RuntimeError(...) from e, lines 89-90.
AsRuntimeError(outcome) ==
    IF outcome.raised = None THEN outcome
    ELSE [outcome EXCEPT !.raised = "RuntimeError"]

\* The with block of start_playground_app_deploy, lines 71-87.
Post(api) ==
    CASE api = "open_raises" ->
             [raised |-> "FileNotFoundError", returned |-> None, posted |-> 0]
      [] api = "post_raises" ->
             [raised |-> "TransportError", returned |-> None, posted |-> 1]
      [] api = "invalid" ->
             [raised |-> "RuntimeError", returned |-> None, posted |-> 1]
      [] api = "json_raises" ->
             [raised |-> "JSONDecodeError", returned |-> None, posted |-> 1]
      [] api = "valid" ->
             [raised |-> None, returned |-> "True", posted |-> 1]

\* start_playground_app_deploy, lines 38-90, called with the keyword
\* arguments kwargs while `file` is at artifact_path.  A call that leaves
\* out a required parameter raises TypeError before the body runs.
start_playground_app_deploy(kwargs, file, api) ==
    IF ~(Parameters \subseteq kwargs)
    THEN [raised |-> "TypeError", returned |-> None, posted |-> 0]
    ELSE IF file = <<>>
    THEN [raised |-> "ValueError", returned |-> None, posted |-> 0]
    ELSE IF TooLarge(file[1])
    THEN [raised |-> "ValueError", returned |-> None, posted |-> 0]
    ELSE AsRuntimeError(Post(api))

\* create_tar_artifact, lines 95-116: tarfile.open creates the file before
\* tar.add reads root, so a failure of tar.add leaves a truncated file.
create_tar_artifact(dir, file, tar, size) ==
    IF tar = "open_raises"
    THEN [raised |-> "OSError", artifact |-> file]
    ELSE IF tar = "add_raises" \/ dir = "absent"
    THEN [raised |-> "OSError", artifact |-> <<1>>]
    ELSE [raised |-> None, artifact |-> <<size>>]

\* start_deploy, lines 119-134: every exception is raised again.
start_deploy(file, api) ==
    start_playground_app_deploy(StartDeployArguments, file, api)

\* cleanup_artifact, lines 137-152: the unlink of line 148 is a comment.
cleanup_artifact(file) ==
    [raised |-> None, artifact |-> file]

\* create_deployment_info, lines 15-56: the error if there is one, else the
\* status.
create_deployment_info(status, err) ==
    IF err # None THEN [status |-> None, error |-> err]
    ELSE [status |-> status, error |-> None]

\* create_info_panel, lines 59-74, and create_error_panel, lines 77-92.
create_info_panel(deployment_info) ==
    [panel |-> "info", info |-> deployment_info]

create_error_panel(deployment_info) ==
    [panel |-> "error", info |-> deployment_info]

StatusPanel(status) ==
    create_info_panel(create_deployment_info(status, None))

\* The loop of step 3, lines 232-244, entered with num_runs: the panels it
\* displays.
RECURSIVE WaitLoop(_)
WaitLoop(num_runs) ==
    <<StatusPanel("Deploying...")>>
        \o (IF num_runs + 1 > MaxRuns THEN <<>> ELSE WaitLoop(num_runs + 1))

\* except Exception as e, lines 265-272: the error panel is displayed and
\* the function returns.
ShowsError(shown, started, file, n, e) ==
    [raised |-> None,
     display |-> Append(shown,
                   create_error_panel(create_deployment_info(None, e))),
     steps |-> started, artifact |-> file, posted |-> n,
     failed |-> started[Len(started)]]

\* raise ValueError(...), lines 186, 189, 197: before anything is displayed.
Refused(file) ==
    [raised |-> "ValueError", display |-> <<>>, steps |-> <<>>,
     artifact |-> file, posted |-> 0, failed |-> None]

\* deploy_playground_app, lines 155-272.
deploy_playground_app(app, name, dir, file, tar, size, api) ==
    IF app = None \/ name = None \/ dir = "absent" THEN Refused(file)
    ELSE
    LET d1 == <<StatusPanel("Initializing..."),
                StatusPanel("Creating artifact...")>>
        created == create_tar_artifact(dir, file, tar, size)
        d2 == Append(d1, StatusPanel("Uploading artifact..."))
        uploaded == start_deploy(created.artifact, api)
        d4 == Append(d2 \o WaitLoop(0), StatusPanel("Deleting artifact..."))
        cleaned == cleanup_artifact(created.artifact)
    IN  IF created.raised # None
        THEN ShowsError(d1, <<"create">>, created.artifact, 0, created.raised)
        ELSE IF uploaded.raised # None
        THEN ShowsError(d2, <<"create", "upload">>, created.artifact,
                        uploaded.posted, uploaded.raised)
        ELSE IF cleaned.raised # None
        THEN ShowsError(d4, <<"create", "upload", "wait", "cleanup">>,
                        cleaned.artifact, uploaded.posted, cleaned.raised)
        ELSE [raised |-> None,
              display |-> Append(d4, StatusPanel("Playground app deployed!")),
              steps |-> <<"create", "upload", "wait", "cleanup">>,
              artifact |-> cleaned.artifact, posted |-> uploaded.posted,
              failed |-> None]

\* What the deployment variables hold before any call.
NoDeployCall ==
    [op |-> "none", app |-> None, name |-> None, kwargs |-> {},
     file |-> <<>>, tar |-> None, api |-> None, failed |-> None,
     raised |-> None, returned |-> None]

\* The deployment variables while the helper is not in use.
DeployIdle ==
    /\ root = "dir"
    /\ artifact = <<>>
    /\ posted = 0
    /\ display = <<>>
    /\ steps = <<>>
    /\ deploy_call = NoDeployCall

(***************************************************************************)
(* The playground routes (src/phi/playground/routes.py).                   *)
(*                                                                         *)
(* The storage of an agent is the set of the sessions it holds, a session  *)
(* being [session_id, user_id]; an agent without storage has <<>>, one     *)
(* with storage <<sessions>>.  Every agent has a storage of its own.       *)
(***************************************************************************)

\* The agents the playground serves (the list `agents` of
\* create_playground_routes, line 23).
AgentIds == {"a1", "a2"}

\* The agent ids a request may name: the agents served and an unknown one.
RequestAgentIds == AgentIds \cup {"a3"}

\* The users of stored sessions; a session run without user has user None.
SessionUsers == UserIds \cup {None}

\* phi.playground.operator.get_agent_by_id: the agent with this id, None if
\* the playground serves none.
get_agent_by_id(agent_id) ==
    IF agent_id \in AgentIds THEN agent_id ELSE None

\* agent.storage.get_all_sessions(user_id=...): the sessions of the user,
\* all sessions if no user is given.
storage_get_all_sessions(sessions, user_id) ==
    {s \in sessions : user_id = None \/ s.user_id = user_id}

\* Agent.delete_session(session_id): the storage drops that session.
delete_session(sessions, session_id) ==
    {s \in sessions : s.session_id # session_id}

\* agent_session_delete with the comparison of line 171 left out: any
\* session listed for the user lets the deletion through.
Listed_AnySession(all_agent_sessions, session_id) ==
    all_agent_sessions # {}

\* agent_session_delete, lines 170-171: the loop finds a session with the
\* session_id of the request.
Listed(all_agent_sessions, session_id) ==
    \E session \in all_agent_sessions : session.session_id = session_id

\* JSONResponse(status_code=..., content=...), with the storages after the
\* request.
JSONResponse(status_code, content, storages) ==
    [status_code |-> status_code, content |-> content, storages |-> storages]

\* agent_session_delete, lines 159-174.
agent_session_delete(storages, body) ==
    LET agent == get_agent_by_id(body.agent_id)
    IN  IF agent = None
        THEN JSONResponse(404, "Agent not found.", storages)
        ELSE IF storages[agent] = <<>>
        THEN JSONResponse(404, "Agent does not have storage enabled.",
                          storages)
        ELSE IF Listed(storage_get_all_sessions(storages[agent][1],
                                                body.user_id),
                       body.session_id)
        THEN JSONResponse(200, "successfully deleted agent",
                 [storages EXCEPT
                     ![agent] = <<delete_session(@[1], body.session_id)>>])
        ELSE JSONResponse(404, "Session not found.", storages)

\* agent_run, lines 74-107: a new instance of the agent runs the message
\* under the session and the user of the request; the run stores the
\* session if the agent has a storage that does not hold it yet.
agent_run(storages, body) ==
    LET agent == get_agent_by_id(body.agent_id)
    IN  IF agent = None
        THEN JSONResponse(404, "Agent not found", storages)
        ELSE IF storages[agent] = <<>>
        THEN JSONResponse(200, "run_response", storages)
        ELSE IF \E s \in storages[agent][1] : s.session_id = body.session_id
        THEN JSONResponse(200, "run_response", storages)
        ELSE JSONResponse(200, "run_response",
                 [storages EXCEPT
                     ![agent] = <<@[1] \cup {[session_id |-> body.session_id,
                                              user_id |-> body.user_id]}>>])

\* get_agent_sessions, lines 109-131.
get_agent_sessions(storages, body) ==
    LET agent == get_agent_by_id(body.agent_id)
    IN  IF agent = None
        THEN JSONResponse(404, "Agent not found.", storages)
        ELSE IF storages[agent] = <<>>
        THEN JSONResponse(404, "Agent does not have storage enabled.",
                          storages)
        ELSE JSONResponse(200, "agent_sessions", storages)

\* What route_call holds before any request.
NoRoute ==
    [route |-> "none", agent_id |-> None, session_id |-> None,
     user_id |-> None, status_code |-> 0, content |-> None]

\* The routes' variables while the playground is not in use: no agent has
\* a storage.
RoutesIdle ==
    /\ agent_storage = [a \in AgentIds |-> <<>>]
    /\ route_call = NoRoute

(***************************************************************************)
(* The state machine.                                                      *)
(***************************************************************************)

\* The conversations a caller may start from (non-empty).
Conversations ==
    {<<Message("system", "You are helpful.", <<>>, None),
       Message("user", "price of NVDA", <<>>, None)>>}

Init ==
    /\ mode \in Modes
    /\ run_tools \in BOOLEAN
    /\ show_tool_calls \in BOOLEAN
    /\ prefix \in Conversations
    /\ messages = prefix
    /\ script = <<>>
    /\ scripted = 0
    /\ round = 0
    /\ pos = 0
    /\ pc = "invoke"
    /\ calls = 0
    /\ stack = <<>>
    /\ content_acc = ""
    /\ tool_calls_acc = <<>>
    /\ yielded = <<>>
    /\ executed = <<>>
    /\ result = None
    /\ error = None
    /\ metrics = 0
    /\ tools = ToolSchema
    /\ sent = <<>>
    /\ prev = <<>>
    /\ redis = <<>>
    /\ storage_mode = "agent"
    /\ expire = NoneInt
    /\ now = 1
    /\ call = NoCall
    /\ DeployIdle
    /\ RoutesIdle

config == <<run_tools, show_tool_calls, prefix>>

\* response, lines 198-202 (invoke, 109-115), and response_stream, lines
\* 269-274 (invoke_stream, 117-122): a frame calls the endpoint.
Invoke ==
    /\ pc = "invoke"
    /\ calls' = calls + 1
    /\ round' = round + 1
    /\ pos' = 0
    /\ script' = IF round + 1 > Len(script) THEN Append(script, <<>>) ELSE script
    /\ pc' = IF mode = "response" THEN "await" ELSE "stream"
    /\ content_acc' = ""
    /\ tool_calls_acc' = <<>>
    /\ sent' = Append(sent, IF mode = "response" THEN invoke(messages, tools)
                            ELSE invoke_stream(messages))
    /\ UNCHANGED <<mode, config, messages, scripted, stack, yielded, executed,
                   result, error, metrics, tools, prev>>
    /\ UNCHANGED <<storage_vars, deploy_vars, routes_vars>>

\* The endpoint composes the reply of a round it serves for the first time
\* while the non-streaming call blocks.
EndpointDelta ==
    /\ pc = "await"
    /\ round > scripted
    /\ TotalDeltas(script) < MaxDeltas
    /\ \E d \in NewDeltas(script, script[round]) :
          script' = [script EXCEPT ![round] = Append(@, d)]
    /\ UNCHANGED <<mode, config, messages, scripted, round, pos, pc, calls, stack,
                   content_acc, tool_calls_acc, yielded, executed, result, error,
                   metrics, tools, sent, prev>>
    /\ UNCHANGED <<storage_vars, deploy_vars, routes_vars>>

\* A variant of TransportFails that calls the endpoint a second time before
\* giving up.
TransportFails_Retried ==
    /\ pc \in {"await", "stream"}
    /\ pc' = "failed"
    /\ error' = "transport"
    /\ stack' = <<>>
    /\ calls' = calls + 1
    /\ UNCHANGED <<mode, config, messages, script, scripted, round, pos,
                   content_acc, tool_calls_acc, yielded, executed, result,
                   metrics, tools, sent, prev>>
    /\ UNCHANGED <<storage_vars, deploy_vars, routes_vars>>

\* invoke, lines 110-115, and invoke_stream, lines 118-122: the endpoint call
\* raises (unreachable, authentication); nothing in response or
\* response_stream catches it.
TransportFails ==
    /\ pc \in {"await", "stream"}
    /\ pc' = "failed"
    /\ error' = "transport"
    /\ stack' = <<>>
    /\ UNCHANGED <<mode, config, messages, script, scripted, round, pos, calls,
                   content_acc, tool_calls_acc, yielded, executed, result,
                   metrics, tools, sent, prev>>
    /\ UNCHANGED <<storage_vars, deploy_vars, routes_vars>>

\* response, lines 202-261: one frame from the endpoint's reply to its
\* recursive call or, in the last frame, to the return of every frame.
ResponseRound ==
    /\ pc = "await"
    /\ scripted' = IF round > scripted THEN round ELSE scripted
    /\ LET response_message == Complete(script[round])
           parsed == ResponseToolCalls(response_message.tool_calls)
           assistant_message ==
               Message(response_message.role, response_message.content,
                       parsed.tool_calls, None)
           appended == Append(messages, assistant_message)
           handled == HandleToolCalls(assistant_message, appended)
       IN IF parsed.raised
          THEN /\ pc' = "failed"
               /\ error' = "json"
               /\ stack' = <<>>
               /\ UNCHANGED <<messages, executed, result, metrics>>
          ELSE IF handled.handled
          THEN /\ messages' = handled.messages
               /\ executed' = executed \o handled.ran
               /\ stack' = Append(stack, handled.content)
               /\ pc' = "invoke"
               /\ metrics' = RecordResponseTime(metrics)
               /\ UNCHANGED <<result, error>>
          ELSE /\ messages' = appended
               /\ result' = Unwind(stack, FinalContent(assistant_message))
               /\ stack' = <<>>
               /\ pc' = "done"
               /\ metrics' = RecordResponseTime(metrics)
               /\ UNCHANGED <<executed, error>>
    /\ tools' = IF ResponseToolCalls(Complete(script[round]).tool_calls).raised
                THEN tools
                ELSE LoopVariable(tools, Complete(script[round]).tool_calls)
    /\ UNCHANGED <<mode, config, script, round, pos, calls, content_acc,
                   tool_calls_acc, yielded, sent, prev>>
    /\ UNCHANGED <<storage_vars, deploy_vars, routes_vars>>

\* response_stream, lines 274-293: one delta of the stream.  A round served
\* before is replayed; otherwise the endpoint chooses the delta now.
StreamDelta ==
    /\ pc = "stream"
    /\ \E d \in (IF pos < Len(script[round]) THEN {script[round][pos + 1]}
                 ELSE IF round > scripted /\ TotalDeltas(script) < MaxDeltas
                 THEN NewDeltas(script, script[round])
                 ELSE {}) :
          /\ script' = IF pos < Len(script[round]) THEN script
                       ELSE [script EXCEPT ![round] = Append(@, d)]
          /\ content_acc' = AccumulateContent(content_acc, d.content)
          /\ yielded' = YieldContent(yielded, d.content)
          /\ tool_calls_acc' = ExtendToolCalls(tool_calls_acc, d.tool_calls)
    /\ pos' = pos + 1
    /\ UNCHANGED <<mode, config, messages, scripted, round, pc, calls, stack,
                   executed, result, error, metrics, tools,
                   sent, prev>>
    /\ UNCHANGED <<storage_vars, deploy_vars, routes_vars>>

\* response_stream, lines 295-352: the stream is exhausted.
StreamEnd ==
    /\ pc = "stream"
    /\ pos = Len(script[round])
    /\ scripted' = IF round > scripted THEN round ELSE scripted
    /\ metrics' = RecordResponseTime(metrics)
    /\ LET assistant_message ==
               Message("assistant",
                       IF content_acc # "" THEN content_acc ELSE None,
                       StreamToolCalls(tool_calls_acc), None)
           r == StreamResolveToolCalls(assistant_message.tool_calls)
       IN IF Len(assistant_message.tool_calls) > 0
          THEN /\ messages' = Append(messages, assistant_message) \o r.messages
                              \o run_function_calls(r.function_calls_to_run)
               /\ yielded' = yielded \o StreamNotices(r.function_calls_to_run)
               /\ executed' = executed \o r.function_calls_to_run
               /\ pc' = "invoke"
          ELSE /\ messages' = Append(messages, assistant_message)
               /\ pc' = "done"
               /\ UNCHANGED <<yielded, executed>>
    /\ UNCHANGED <<mode, config, script, round, pos, calls, stack, content_acc,
                   tool_calls_acc, result, error, tools, sent, prev>>
    /\ UNCHANGED <<storage_vars, deploy_vars, routes_vars>>

\* The caller, after the first exchange returned, runs a second one on a
\* fresh copy of the same conversation prefix against the same endpoint.
Restart ==
    /\ pc = "done"
    /\ prev = <<>>
    /\ prev' = <<[mode |-> mode, messages |-> messages, yielded |-> yielded,
                  executed |-> executed, result |-> result, calls |-> calls]>>
    /\ mode' \in Modes
    /\ messages' = prefix
    /\ round' = 0
    /\ pos' = 0
    /\ pc' = "invoke"
    /\ calls' = 0
    /\ stack' = <<>>
    /\ content_acc' = ""
    /\ tool_calls_acc' = <<>>
    /\ yielded' = <<>>
    /\ executed' = <<>>
    /\ result' = None
    /\ tools' = ToolSchema
    /\ sent' = <<>>
    /\ UNCHANGED <<config, script, scripted, error, metrics>>
    /\ UNCHANGED <<storage_vars, deploy_vars, routes_vars>>

Next ==
    \/ Invoke
    \/ EndpointDelta
    \/ TransportFails
    \/ ResponseRound
    \/ StreamDelta
    \/ StreamEnd
    \/ Restart

Spec == Init /\ [][Next]_vars

\* The caller keeps pulling the generator and the endpoint keeps answering:
\* an exchange that can take a step eventually takes one.
FairSpec == Spec /\ WF_vars(Next)

(***************************************************************************)
(* The storage as a state machine: the calls of one RedisStorage object,   *)
(* the clock, the expiry of keys and another client of the same database.  *)
(***************************************************************************)

\* The adapter's variables while only the storage is in use.
ChatIdle ==
    /\ mode = "response"
    /\ run_tools = TRUE
    /\ show_tool_calls = FALSE
    /\ prefix \in Conversations
    /\ messages = prefix
    /\ script = <<>>
    /\ scripted = 0
    /\ round = 0
    /\ pos = 0
    /\ pc = "invoke"
    /\ calls = 0
    /\ stack = <<>>
    /\ content_acc = ""
    /\ tool_calls_acc = <<>>
    /\ yielded = <<>>
    /\ executed = <<>>
    /\ result = None
    /\ error = None
    /\ metrics = 0
    /\ tools = ToolSchema
    /\ sent = <<>>
    /\ prev = <<>>

\* __init__, lines 29-64: a storage of some mode, with or without a time to
\* live for its keys, on an empty database.
RedisInit ==
    /\ ChatIdle
    /\ redis = <<>>
    /\ storage_mode \in StorageModes
    /\ expire \in Expirations
    /\ now = 1
    /\ call = NoCall
    /\ DeployIdle
    /\ RoutesIdle

storage_config == <<storage_mode, expire>>

\* upsert, lines 289-308.
Upsert ==
    /\ call = NoCall
    /\ \E session \in Sessions(storage_mode, now), fails \in BOOLEAN :
           /\ redis' = IF fails THEN redis
                       ELSE Set(redis, _get_key(session.fields.session_id),
                                serialize(UpsertData(session, now)))
           /\ call' = [NoCall EXCEPT !.name = "upsert",
                                     !.session_id = session.fields.session_id,
                                     !.failed = fails,
                                     !.arg = <<session>>,
                                     !.ret = IF fails THEN <<>> ELSE <<session>>]
           /\ UNCHANGED <<chat_vars, deploy_vars, routes_vars, storage_config, now>>

\* read, lines 91-113.
Read ==
    /\ call = NoCall
    /\ \E session_id \in SessionIds, user_id \in UserFilters, fails \in BOOLEAN :
           /\ call' = [NoCall EXCEPT !.name = "read",
                                     !.session_id = session_id,
                                     !.user_id = user_id,
                                     !.failed = fails,
                                     !.ret = read(redis, storage_mode, session_id,
                                                  user_id, fails)]
           /\ UNCHANGED <<chat_vars, deploy_vars, routes_vars, storage_config, redis, now>>

\* get_all_session_ids, lines 115-154.
GetAllSessionIds ==
    /\ call = NoCall
    /\ \E user_id \in UserFilters, entity_id \in EntityFilters,
          keys \in ScanOrders(scan_iter(redis)), fails \in BOOLEAN :
           /\ call' = [NoCall EXCEPT !.name = "get_all_session_ids",
                                     !.user_id = user_id,
                                     !.entity_id = entity_id,
                                     !.failed = fails,
                                     !.ret = IF fails THEN <<>>
                                             ELSE get_all_session_ids(
                                                      redis, storage_mode, keys,
                                                      user_id, entity_id)]
           /\ UNCHANGED <<chat_vars, deploy_vars, routes_vars, storage_config, redis, now>>

\* get_all_sessions, lines 156-216.
GetAllSessions ==
    /\ call = NoCall
    /\ \E user_id \in UserFilters, entity_id \in EntityFilters,
          keys \in ScanOrders(scan_iter(redis)), fails \in BOOLEAN :
           /\ call' = [NoCall EXCEPT !.name = "get_all_sessions",
                                     !.user_id = user_id,
                                     !.entity_id = entity_id,
                                     !.failed = fails,
                                     !.ret = IF fails THEN <<>>
                                             ELSE get_all_sessions(
                                                      redis, storage_mode, keys,
                                                      user_id, entity_id)]
           /\ UNCHANGED <<chat_vars, deploy_vars, routes_vars, storage_config, redis, now>>

\* get_recent_sessions, lines 218-287.
GetRecentSessions ==
    /\ call = NoCall
    /\ \E user_id \in UserFilters, entity_id \in EntityFilters,
          limit \in Limits,
          keys \in ScanOrders(scan_iter(redis)), fails \in BOOLEAN :
           /\ call' = [NoCall EXCEPT !.name = "get_recent_sessions",
                                     !.user_id = user_id,
                                     !.entity_id = entity_id,
                                     !.limit = limit,
                                     !.failed = fails,
                                     !.ret = IF fails THEN <<>>
                                             ELSE get_recent_sessions(
                                                      redis, storage_mode, keys,
                                                      user_id, entity_id, limit)]
           /\ UNCHANGED <<chat_vars, deploy_vars, routes_vars, storage_config, redis, now>>

\* delete_session, lines 310-319.
DeleteSession ==
    /\ call = NoCall
    /\ \E session_id \in SessionIds \cup {None}, fails \in BOOLEAN :
           /\ redis' = IF session_id = None \/ fails THEN redis
                       ELSE Delete(redis, {_get_key(session_id)})
           /\ call' = [NoCall EXCEPT !.name = "delete_session",
                                     !.session_id = session_id,
                                     !.failed = fails]
           /\ UNCHANGED <<chat_vars, deploy_vars, routes_vars, storage_config, now>>

\* drop, lines 321-329.
Drop ==
    /\ call = NoCall
    /\ redis' = Delete(redis, scan_iter(redis))
    /\ call' = [NoCall EXCEPT !.name = "drop"]
    /\ UNCHANGED <<chat_vars, deploy_vars, routes_vars, storage_config, now>>

\* upsert, lines 301-302: a key set with ex=self.expire disappears when its
\* time is over.
Expire ==
    /\ call = NoCall
    /\ expire # NoneInt
    /\ \E key \in {k \in DOMAIN redis : redis[k].encoding = "json"} :
          redis' = Delete(redis, {key})
    /\ UNCHANGED <<chat_vars, deploy_vars, routes_vars, storage_config, now, call>>

\* Another client of the database sets a key under the prefix to a value
\* that is not JSON.
OtherClientWrites ==
    /\ call = NoCall
    /\ \E session_id \in SessionIds :
          /\ IF _get_key(session_id) \in DOMAIN redis
             THEN redis[_get_key(session_id)].encoding = "json"
             ELSE TRUE
          /\ redis' = Set(redis, _get_key(session_id), NotJson)
    /\ UNCHANGED <<chat_vars, deploy_vars, routes_vars, storage_config, now, call>>

\* upsert, line 296: time.time() moves on.
Tick ==
    /\ call = NoCall
    /\ now < MaxTime
    /\ now' = now + 1
    /\ UNCHANGED <<chat_vars, deploy_vars, routes_vars, storage_config, redis, call>>

\* The caller takes what the call returned; the storage serves one call at
\* a time.
Return ==
    /\ call # NoCall
    /\ call' = NoCall
    /\ UNCHANGED <<chat_vars, deploy_vars, routes_vars, storage_config, redis, now>>

RedisNext ==
    \/ Upsert
    \/ Read
    \/ GetAllSessionIds
    \/ GetAllSessions
    \/ GetRecentSessions
    \/ DeleteSession
    \/ Drop
    \/ Expire
    \/ OtherClientWrites
    \/ Tick
    \/ Return

RedisSpec == RedisInit /\ [][RedisNext]_vars

(***************************************************************************)
(* The deployment helper as a state machine: the calls of the functions of *)
(* deploy.py and of start_playground_app_deploy, and the other processes   *)
(* that write to the same directory.  Every call runs to its end in one    *)
(* step; what it displayed and which steps it started is kept in display   *)
(* and steps.                                                              *)
(***************************************************************************)

\* The storage variables while no storage is in use.
StorageIdle ==
    /\ redis = <<>>
    /\ storage_mode = "agent"
    /\ expire = NoneInt
    /\ now = 1
    /\ call = NoCall

\* Before the first call: whatever is at root, no artifact yet.
DeployInit ==
    /\ ChatIdle
    /\ StorageIdle
    /\ RoutesIdle
    /\ root \in Roots
    /\ artifact = <<>>
    /\ posted = 0
    /\ display = <<>>
    /\ steps = <<>>
    /\ deploy_call = NoDeployCall

\* The arguments app and name of deploy_playground_app.
Apps == {None, "playground:app"}

Names == {None, "demo"}

\* deploy_playground_app, lines 155-272.
DeployPlaygroundApp ==
    /\ \E app \in Apps, name \in Names, tar \in TarOutcomes, size \in Sizes,
          api \in ApiOutcomes :
           LET r == deploy_playground_app(app, name, root, artifact, tar,
                                          size, api)
           IN  /\ artifact' = r.artifact
               /\ posted' = r.posted
               /\ display' = r.display
               /\ steps' = r.steps
               /\ deploy_call' =
                      [NoDeployCall EXCEPT !.op = "deploy_playground_app",
                                           !.app = app, !.name = name,
                                           !.file = artifact, !.tar = tar,
                                           !.api = api, !.failed = r.failed,
                                           !.raised = r.raised]
    /\ UNCHANGED <<chat_vars, storage_vars, routes_vars, root>>

\* create_tar_artifact, lines 95-116, called on its own.
CreateTarArtifact ==
    /\ \E tar \in TarOutcomes, size \in Sizes :
           LET r == create_tar_artifact(root, artifact, tar, size)
           IN  /\ artifact' = r.artifact
               /\ deploy_call' =
                      [NoDeployCall EXCEPT !.op = "create_tar_artifact",
                                           !.file = artifact, !.tar = tar,
                                           !.raised = r.raised,
                                           !.returned =
                                               IF r.raised = None
                                               THEN "artifact_path" ELSE None]
    /\ posted' = 0
    /\ UNCHANGED <<chat_vars, storage_vars, routes_vars, root, display, steps>>

\* start_deploy, lines 119-134, called on its own.
StartDeploy ==
    /\ \E api \in ApiOutcomes :
           LET r == start_deploy(artifact, api)
           IN  /\ posted' = r.posted
               /\ deploy_call' =
                      [NoDeployCall EXCEPT !.op = "start_deploy",
                                           !.kwargs = StartDeployArguments,
                                           !.file = artifact, !.api = api,
                                           !.raised = r.raised]
    /\ UNCHANGED <<chat_vars, storage_vars, routes_vars, root, artifact,
                   display, steps>>

\* cleanup_artifact, lines 137-152, called on its own.
CleanupArtifact ==
    /\ LET r == cleanup_artifact(artifact)
       IN  /\ artifact' = r.artifact
           /\ deploy_call' =
                  [NoDeployCall EXCEPT !.op = "cleanup_artifact",
                                       !.file = artifact,
                                       !.raised = r.raised]
    /\ posted' = 0
    /\ UNCHANGED <<chat_vars, storage_vars, routes_vars, root, display, steps>>

\* start_playground_app_deploy, lines 38-90, called with all of its
\* parameters or as start_deploy calls it.
StartPlaygroundAppDeploy ==
    /\ \E kwargs \in {Parameters, StartDeployArguments}, api \in ApiOutcomes :
           LET r == start_playground_app_deploy(kwargs, artifact, api)
           IN  /\ posted' = r.posted
               /\ deploy_call' =
                      [NoDeployCall EXCEPT
                           !.op = "start_playground_app_deploy",
                           !.kwargs = kwargs, !.file = artifact,
                           !.api = api, !.raised = r.raised,
                           !.returned = r.returned]
    /\ UNCHANGED <<chat_vars, storage_vars, routes_vars, root, artifact,
                   display, steps>>

\* Between two calls another process writes, replaces or removes the
\* artifact or what is at root; the result of the last call has been taken.
FileSystemChanges ==
    /\ \E dir \in Roots, file \in Files :
           /\ <<dir, file>> # <<root, artifact>>
           /\ root' = dir
           /\ artifact' = file
    /\ deploy_call' = NoDeployCall
    /\ UNCHANGED <<chat_vars, storage_vars, routes_vars, posted, display,
                   steps>>

DeployNext ==
    \/ DeployPlaygroundApp
    \/ CreateTarArtifact
    \/ StartDeploy
    \/ CleanupArtifact
    \/ StartPlaygroundAppDeploy
    \/ FileSystemChanges

DeploySpec == DeployInit /\ [][DeployNext]_vars

(***************************************************************************)
(* The playground routes as a state machine: the requests a client sends   *)
(* to the router, one at a time.                                           *)
(***************************************************************************)

\* create_playground_routes, line 23: every agent served has a storage,
\* still empty, or none.
RoutesInit ==
    /\ ChatIdle
    /\ StorageIdle
    /\ DeployIdle
    /\ agent_storage \in [AgentIds -> {<<>>, <<{}>>}]
    /\ route_call = NoRoute

\* The bodies of the requests (AgentSessionDeleteRequest, AgentRunRequest,
\* AgentSessionsRequest): agent_id, session_id and user_id.
Bodies ==
    [agent_id : RequestAgentIds, session_id : SessionIds,
     user_id : SessionUsers]

\* A request to `route` with body `body`, answered by `response`.
Answer(route, body, response) ==
    /\ agent_storage' = response.storages
    /\ route_call' = [route |-> route, agent_id |-> body.agent_id,
                      session_id |-> body.session_id,
                      user_id |-> body.user_id,
                      status_code |-> response.status_code,
                      content |-> response.content]
    /\ UNCHANGED <<chat_vars, storage_vars, deploy_vars>>

\* POST /playground/agent/session/delete, lines 159-174.
AgentSessionDelete ==
    \E body \in Bodies :
        Answer("agent_session_delete", body,
               agent_session_delete(agent_storage, body))

\* POST /playground/agent/run, lines 74-107.
AgentRun ==
    \E body \in Bodies :
        Answer("agent_run", body, agent_run(agent_storage, body))

\* POST /playground/agent/sessions/all, lines 109-131.
GetAgentSessions ==
    \E body \in Bodies :
        Answer("get_agent_sessions", body,
               get_agent_sessions(agent_storage, body))

RoutesNext ==
    \/ AgentSessionDelete
    \/ AgentRun
    \/ GetAgentSessions

RoutesSpec == RoutesInit /\ [][RoutesNext]_vars

(***************************************************************************)
(* Vocabulary of the properties.                                           *)
(***************************************************************************)

\* The messages this exchange appended to the conversation.
Appended == SubSeq(messages, Len(prefix) + 1, Len(messages))

PrefixKept == SubSeq(messages, 1, Len(prefix)) = prefix

\* The tool-call requests of the endpoint's message of round r.
Requests(r) == Complete(script[r]).tool_calls

RequestIds(r) == [i \in DOMAIN Requests(r) |-> Requests(r)[i].id]

\* Positions in msgs of the assistant messages.
AssistantAt(msgs) == {i \in DOMAIN msgs : msgs[i].role = "assistant"}

\* The messages that follow the r-th assistant message of this exchange, up
\* to the next assistant message.
Answers(r) ==
    LET at == AssistantAt(Appended)
        start == CHOOSE i \in at : Cardinality({j \in at : j <= i}) = r
        later == {j \in at : j > start}
        stop == IF later = {} THEN Len(Appended) + 1
                ELSE CHOOSE j \in later : \A k \in later : j <= k
    IN SubSeq(Appended, start + 1, stop - 1)

\* A request that resolves to a registered tool and runs without error.
Succeeds(q) == q.name \in Functions /\ q.arguments = ArgsOk

Unresolvable(q) == q.name \notin Functions

\* The response frame of round `round` has handled its tool calls and is
\* about to recurse.
Recursing == pc = "invoke" /\ round >= 1

\* C1: when the endpoint's first reply to response carries no tool-call
\* request, response returns that message's text unchanged, has appended
\* exactly that one assistant message, and has called the endpoint once.
C1_NoToolCallsReturnsText ==
    (mode = "response" /\ pc = "done" /\ Requests(1) = <<>>) =>
        /\ result = TextOf(script[1])
        /\ PrefixKept
        /\ Appended = <<Message("assistant", TextOf(script[1]), <<>>, None)>>
        /\ calls = 1

C1_Witness ==
    /\ mode = "response" /\ pc = "done" /\ Requests(1) = <<>>
    /\ result = "aa" /\ Len(messages) = Len(prefix) + 1 /\ calls = 1

\* C2: in response, when the N >= 1 requests of a reply all resolve and run
\* successfully, exactly N tool-role messages precede the next endpoint call
\* and the i-th carries the identifier of the i-th request.
C2_ToolMessagesCarryRequestIds ==
    (mode = "response" /\ Recursing
       /\ \A i \in DOMAIN Requests(round) : Succeeds(Requests(round)[i])) =>
        /\ Len(Answers(round)) = Len(Requests(round))
        /\ \A i \in DOMAIN Answers(round) :
              /\ Answers(round)[i].role = "tool"
              /\ Answers(round)[i].tool_call_id = RequestIds(round)[i]

\* The requests the adapter saw in round r: the endpoint's message in
\* response, the fragments in response_stream.
Seen(r) == IF mode = "response" THEN Requests(r) ELSE FragmentsOf(script[r])

\* C3: in response and in response_stream, a request for a function that is
\* not registered runs no function, is answered by one tool-role message
\* "Could not find function to call." tagged with the request's identifier,
\* and lets no exception escape.
C3_UnresolvableAnswered ==
    /\ Recursing =>
        \A i \in DOMAIN Seen(round) :
            Unresolvable(Seen(round)[i]) =>
                /\ \A j \in DOMAIN executed :
                      executed[j].name # Seen(round)[i].name
                /\ Cardinality({j \in DOMAIN Answers(round) :
                      Answers(round)[j] =
                          Message("tool", NotFoundText, <<>>, Seen(round)[i].id)}) = 1
    /\ (pc = "failed" /\ error # "transport") =>
        \E i \in DOMAIN Seen(round) :
            ~Unresolvable(Seen(round)[i]) /\ ~json_loads(Seen(round)[i].arguments).ok

\* C4: every tool-role message answers exactly one request of the nearest
\* preceding assistant message, and every request of an assistant message is
\* answered by exactly one tool-role message before the next one.
C4_AnswersMatchRequests ==
    \A r \in 1 .. round :
        (r < round \/ Recursing) =>
            /\ \A j \in DOMAIN Answers(r) :
                  /\ Answers(r)[j].role = "tool"
                  /\ Cardinality({i \in DOMAIN Requests(r) :
                        Requests(r)[i].id = Answers(r)[j].tool_call_id}) = 1
            /\ \A i \in DOMAIN Requests(r) :
                  Cardinality({j \in DOMAIN Answers(r) :
                        Answers(r)[j].tool_call_id = Requests(r)[i].id}) = 1

\* The case of C5: response returned after two rounds, the first with k >= 1
\* requests that all name registered tools with a payload that parses, the
\* second with text and no request.
C5_Case ==
    /\ mode = "response" /\ pc = "done" /\ round = 2
    /\ Len(Requests(1)) >= 1
    /\ \A i \in DOMAIN Requests(1) :
          /\ Requests(1)[i].name \in Functions
          /\ json_loads(Requests(1)[i].arguments).ok
    /\ Requests(2) = <<>>
    /\ TextOf(script[2]) # None

\* The conversation grew by the assistant message with the calls, k tool
\* results and the final assistant message, in this order.
C5_Growth ==
    /\ PrefixKept
    /\ Len(Appended) = Len(Requests(1)) + 2
    /\ Appended[1].role = "assistant" /\ Len(Appended[1].tool_calls) = Len(Requests(1))
    /\ \A i \in 2 .. Len(Appended) - 1 : Appended[i].role = "tool"
    /\ Appended[Len(Appended)] = Message("assistant", TextOf(script[2]), <<>>, None)

Running == {"await", "stream"}

Ended == {"done", "failed"}

\* A frame leaves its round without an exception.
LeavesRound == pc \in Running /\ pc' \notin Running \cup {"failed"}

RECURSIVE TextYielded(_)
TextYielded(out) ==
    IF out = <<>> THEN <<>>
    ELSE (IF Head(out).notice THEN <<>> ELSE <<Head(out).text>>)
         \o TextYielded(Tail(out))

TextOrEmpty(content) == IF content = None THEN "" ELSE content

\* C7: with a deterministic endpoint, the text fragments yielded by one
\* response_stream run, concatenated, are the text response returns for the
\* same conversation and tools.
C7_StreamTextIsResponseText ==
    (pc = "done" /\ prev # <<>> /\ prev[1].mode # mode
       /\ run_tools /\ ~show_tool_calls) =>
        LET streamed == IF mode = "stream" THEN yielded ELSE prev[1].yielded
            returned == IF mode = "response" THEN result ELSE prev[1].result
        IN Concat(TextYielded(streamed)) = TextOrEmpty(returned)

\* The text fragments the endpoint has sent so far in this exchange.
RECURSIVE TextsOf(_)
TextsOf(ds) ==
    IF ds = <<>> THEN <<>>
    ELSE (IF Head(ds).content = None THEN <<>> ELSE <<Head(ds).content>>)
         \o TextsOf(Tail(ds))

RECURSIVE Arrived(_)
Arrived(r) ==
    IF r = 0 THEN <<>>
    ELSE Arrived(r - 1)
         \o TextsOf(IF r = round THEN SubSeq(script[r], 1, pos) ELSE script[r])

\* C8: response_stream has yielded, at every moment, exactly the text
\* fragments that have arrived so far, in their order of arrival, rounds in
\* their order.
C8_YieldsInArrivalOrder ==
    mode = "stream" => TextYielded(yielded) = Arrived(round)

C8_Witness ==
    /\ mode = "stream" /\ round = 2
    /\ TextYielded(yielded) = <<"", "a">>

\* The assistant message appended last.
LastAssistant ==
    Appended[CHOOSE i \in AssistantAt(Appended) :
                \A j \in AssistantAt(Appended) : j <= i]

\* C9: at the end of a stream the assistant message holds one tool-call
\* request per distinct call identifier received, however many fragments
\* carried it.
C9_OneRequestPerIdentifier ==
    (mode = "stream" /\ pc \in {"invoke", "done"} /\ round >= 1) =>
        Len(LastAssistant.tool_calls)
            = Cardinality(IdsOf(FragmentsOf(script[round])))

\* C10: a failure of the endpoint call reaches the caller as it is; the
\* failing round called the endpoint once (as every round before it), no
\* message was appended for it, nothing is returned, and nothing more
\* happens in the exchange.
C10_TransportFailureIsFinal ==
    /\ []((pc = "failed" /\ error = "transport") =>
            /\ calls = round
            /\ Cardinality(AssistantAt(Appended)) = round - 1
            /\ result = None)
    /\ [][pc = "failed" => UNCHANGED vars]_vars

C10_Witness ==
    /\ pc = "failed" /\ error = "transport"
    /\ round = 2 /\ calls = 2

\* A request for a registered tool whose payload is malformed JSON or does
\* not fit the tool's parameters.
InvalidPayload(q) ==
    /\ q.name \in Functions
    /\ \/ ~json_loads(q.arguments).ok
       \/ "symbol" \notin DOMAIN json_loads(q.arguments).value

\* The validation error the framework reports for the request q.
ValidationError(q) ==
    get_function_call_for_tool_call(
        [function |-> [name |-> q.name, arguments |-> q.arguments]],
        Functions).error

\* C11: in response and in response_stream, a request for a registered tool
\* with an invalid payload (malformed JSON or schema mismatch) is answered by
\* one tool-role message carrying the validation error and the request's
\* identifier, the tool is not executed with that payload, the other requests
\* of the round are answered too, the next endpoint call is made, and no
\* exception escapes on account of the payload.
C11_InvalidPayloadAnswered ==
    /\ Recursing =>
        \A i \in DOMAIN Requests(round) :
            InvalidPayload(Requests(round)[i]) =>
                /\ Len(Answers(round)) = Len(Requests(round))
                /\ \A j \in DOMAIN executed :
                      executed[j].arguments
                          # json_loads(Requests(round)[i].arguments).value
                /\ Cardinality({j \in DOMAIN Answers(round) :
                      Answers(round)[j] =
                          Message("tool", ValidationError(Requests(round)[i]),
                                  <<>>, Requests(round)[i].id)}) = 1
    /\ ~(pc = "failed" /\ error = "json")

\* A request whose tool function raises when it runs.
Raises(q) ==
    /\ q.name \in Functions
    /\ json_loads(q.arguments).ok
    /\ "symbol" \in DOMAIN json_loads(q.arguments).value
    /\ ~get_price(json_loads(q.arguments).value).success

\* C12: an exception raised inside a tool function is turned into one
\* tool-role message with the error, tagged with the identifier of that call;
\* the round goes on: every request of the round is answered, every other
\* call that runs successfully has its result message tagged with its own
\* identifier, the next endpoint call is made, and no exception of a tool
\* function reaches the caller.
C12_ToolExceptionCaughtPerCall ==
    /\ Recursing =>
        \A i \in DOMAIN Requests(round) :
            Raises(Requests(round)[i]) =>
                /\ Len(Answers(round)) = Len(Requests(round))
                /\ Cardinality({j \in DOMAIN Answers(round) :
                      Answers(round)[j] =
                          Message("tool",
                                  get_price(json_loads(Requests(round)[i].arguments).value).text,
                                  <<>>, Requests(round)[i].id)}) = 1
                /\ \A k \in DOMAIN Requests(round) :
                      Succeeds(Requests(round)[k]) =>
                          \E j \in DOMAIN Answers(round) :
                              Answers(round)[j] =
                                  Message("tool", get_price(json_loads(ArgsOk).value).text,
                                          <<>>, Requests(round)[k].id)
    /\ (pc = "failed" /\ error # "transport") =>
        \E i \in DOMAIN Requests(round) :
            ~json_loads(Requests(round)[i].arguments).ok

\* The case of C13: response has returned twice, each time from a fresh copy
\* of the same conversation, and the endpoint's reply carries no tool call.
C13_Case ==
    /\ pc = "done" /\ mode = "response"
    /\ prev # <<>> /\ prev[1].mode = "response"
    /\ Requests(1) = <<>>

\* C13: the second call of response appends the same messages and returns
\* the same text as the first, whatever the adapter has kept from the first
\* call (its recorded response times).
C13_SecondCallSameOutput ==
    C13_Case =>
        /\ Appended = SubSeq(prev[1].messages, Len(prefix) + 1, Len(prev[1].messages))
        /\ result = prev[1].result

C13_Witness ==
    /\ C13_Case
    /\ result = "aa" /\ prev[1].result = "aa"
    /\ Len(Appended) = 1 /\ Appended[1].content = "aa"
    /\ metrics = 2

\* C14: within one exchange (one call of response or response_stream with
\* all of its rounds) every step leaves the conversation as it was or longer,
\* with every message it held still at its position.
C14_ConversationAppendOnly ==
    [][prev' = prev =>
          /\ Len(messages') >= Len(messages)
          /\ SubSeq(messages', 1, Len(messages)) = messages]_vars

C14_Witness ==
    /\ round = 2 /\ pc = "done"
    /\ PrefixKept
    /\ Len(Appended) = 3
    /\ Appended[1].role = "assistant" /\ Appended[2].role = "tool"
    /\ Appended[3].role = "assistant"

\* The requests among reqs that are executed (registered tool, valid
\* payload), and those that are rejected with an error message.
RECURSIVE Executable(_)
Executable(reqs) ==
    IF reqs = <<>> THEN <<>>
    ELSE (IF Head(reqs).name \in Functions /\ ~InvalidPayload(Head(reqs))
          THEN <<Head(reqs)>> ELSE <<>>)
         \o Executable(Tail(reqs))

RECURSIVE Rejected(_)
Rejected(reqs) ==
    IF reqs = <<>> THEN <<>>
    ELSE (IF Head(reqs).name \in Functions /\ ~InvalidPayload(Head(reqs))
          THEN <<>> ELSE <<Head(reqs)>>)
         \o Rejected(Tail(reqs))

\* The content of the tool-role message that answers the request q.
AnswerContent(q) ==
    IF q.name \notin Functions THEN NotFoundText
    ELSE IF InvalidPayload(q) THEN ValidationError(q)
    ELSE get_price(json_loads(q.arguments).value).text

\* The function calls executed in the round that has just been handled.
ExecutedThisRound ==
    SubSeq(executed, Len(executed) - Len(Executable(Seen(round))) + 1, Len(executed))

\* The calls of the round were executed in the order of their requests.
C15_ExecutedInRequestOrder ==
    /\ Len(executed) >= Len(Executable(Seen(round)))
    /\ \A i \in DOMAIN ExecutedThisRound :
          /\ ExecutedThisRound[i].name = Executable(Seen(round))[i].name
          /\ ExecutedThisRound[i].arguments
                = json_loads(Executable(Seen(round))[i].arguments).value
          /\ mode = "stream" =>
                ExecutedThisRound[i].call_id = Executable(Seen(round))[i].id

\* C15 as first stated: the calls of a round are executed in the order of
\* their requests and the i-th tool-role message of the round answers the
\* i-th request, errors and results alike.
C15_AnswersInRequestOrder ==
    Recursing =>
        /\ C15_ExecutedInRequestOrder
        /\ Len(Answers(round)) = Len(Seen(round))
        /\ \A i \in DOMAIN Answers(round) :
              /\ Answers(round)[i].role = "tool"
              /\ Answers(round)[i].content = AnswerContent(Seen(round)[i])

\* C15 as amended: the calls of a round are executed in the order of their
\* requests; the tool-role messages of the round are the error messages of
\* the rejected requests, in the order of these requests, followed by the
\* results of the executed calls, in the order of their requests.
C15_ErrorsThenResultsInRequestOrder ==
    Recursing =>
        LET expected == Rejected(Seen(round)) \o Executable(Seen(round))
        IN /\ C15_ExecutedInRequestOrder
           /\ Len(Answers(round)) = Len(expected)
           /\ \A i \in DOMAIN Answers(round) :
                 /\ Answers(round)[i].role = "tool"
                 /\ Answers(round)[i].content = AnswerContent(expected[i])
                 /\ mode = "stream" =>
                       Answers(round)[i].tool_call_id = expected[i].id

C15_Witness ==
    /\ Recursing /\ mode = "response"
    /\ Len(Seen(round)) = 2
    /\ Executable(Seen(round)) = <<Seen(round)[1]>>
    /\ Rejected(Seen(round)) = <<Seen(round)[2]>>
    /\ Len(executed) = 1
    /\ Answers(round)[1].content = NotFoundText
    /\ Answers(round)[2].content = "118.50"

\* C16: every request sent to the endpoint in an exchange, the first and
\* those of the recursive rounds, in response and in response_stream, holds
\* the tool schema the caller passed, and the request being served holds the
\* whole conversation as it stands.
C16_EveryCallSendsConversationAndSchema ==
    /\ Len(sent) = calls
    /\ \A i \in DOMAIN sent : sent[i].tools = ToolSchema
    /\ pc \in Running => sent[Len(sent)].messages = messages

\* The messages that follow the r-th assistant message of the appended
\* messages msgs, up to the next assistant message.
AnswersOf(msgs, r) ==
    LET at == AssistantAt(msgs)
        start == CHOOSE i \in at : Cardinality({j \in at : j <= i}) = r
        later == {j \in at : j > start}
        stop == IF later = {} THEN Len(msgs) + 1
                ELSE CHOOSE j \in later : \A k \in later : j <= k
    IN SubSeq(msgs, start + 1, stop - 1)

\* The messages the first exchange appended.
PrevAppended == SubSeq(prev[1].messages, Len(prefix) + 1, Len(prev[1].messages))

\* The case of C17: one exchange ran response, the other response_stream, on
\* the same conversation and the same replies; the first reply carries
\* tool-call requests, every one in a single fragment, so that both paths
\* assemble the same assistant message; and both have handled that reply.
C17_Case ==
    /\ prev # <<>> /\ prev[1].mode # mode
    /\ round >= 2 \/ pc = "done"
    /\ Requests(1) # <<>>
    /\ Len(FragmentsOf(script[1])) = Len(Requests(1))

\* C17: the tool-role messages response_stream appends for the reply are
\* those response appends for it, one by one (count, identifiers, contents);
\* response_stream then calls the endpoint again and yields every text
\* fragment of the next round.
C17_StreamAnswersAsResponse ==
    C17_Case =>
        /\ AnswersOf(Appended, 1) = AnswersOf(PrevAppended, 1)
        /\ mode = "stream" =>
              /\ round >= 2
              /\ TextYielded(yielded) = Arrived(round)

\* The key holds a session: a value that decodes.
Stored(db, key) == key \in DOMAIN db /\ db[key].encoding = "json"

\* The key holds a session it did not hold before the step, or another one.
Rewritten(key) ==
    /\ Stored(redis', key)
    /\ IF Stored(redis, key) THEN redis[key].data # redis'[key].data ELSE TRUE

EntityOf(data) ==
    CASE storage_mode = "agent" -> data.agent_id
      [] storage_mode = "team" -> data.team_id
      [] storage_mode \in {"workflow", "workflow_v2"} -> data.workflow_id

Matching(user_id, entity_id) ==
    {redis[key].data : key \in {k \in scan_iter(redis) :
        /\ Stored(redis, k)
        /\ user_id = None \/ redis[k].data.user_id = user_id
        /\ entity_id = None \/ EntityOf(redis[k].data) = entity_id}}

AllDecode == \A key \in scan_iter(redis) : Stored(redis, key)

\* C20: in every storage mode and for every combination of the user_id and
\* entity_id filters, a call of get_all_sessions that reaches a database
\* whose values all decode returns exactly the stored sessions that match
\* the filters, each once, and get_all_session_ids returns exactly the
\* session ids of these sessions.
C20_AllSessionsMatchFilters ==
    /\ (call.name = "get_all_sessions" /\ ~call.failed /\ AllDecode) =>
          /\ {asdict(call.ret[i]) : i \in DOMAIN call.ret}
                = Matching(call.user_id, call.entity_id)
          /\ Len(call.ret) = Cardinality(Matching(call.user_id, call.entity_id))
          /\ \A i \in DOMAIN call.ret :
                call.ret[i].class = SessionClass(storage_mode)
    /\ (call.name = "get_all_session_ids" /\ ~call.failed /\ AllDecode) =>
          /\ {call.ret[i] : i \in DOMAIN call.ret}
                = {data.session_id : data \in Matching(call.user_id, call.entity_id)}
          /\ Len(call.ret) = Cardinality(Matching(call.user_id, call.entity_id))

(***************************************************************************)
(* The deployment helper: vocabulary and properties.                       *)
(***************************************************************************)

\* The last call was deploy_playground_app and it started the given step.
Started(step) ==
    /\ deploy_call.op = "deploy_playground_app"
    /\ \E i \in DOMAIN steps : steps[i] = step

\* cleanup_artifact has just returned without error: called on its own, or
\* as step 4 of deploy_playground_app.
CleanedUp ==
    \/ deploy_call.op = "cleanup_artifact" /\ deploy_call.raised = None
    \/ Started("cleanup") /\ deploy_call.failed # "cleanup"

\* C21: once the cleanup step has returned without error, the tar artifact
\* is no longer on disk.
C21_ArtifactGoneAfterCleanup ==
    CleanedUp => artifact = <<>>

\* C22: when a step of the deployment (artifact creation, upload, cleanup)
\* fails, deploy_playground_app raises an exception to its caller.
C22_FailedStepRaises ==
    (deploy_call.op = "deploy_playground_app" /\ deploy_call.failed # None)
        => deploy_call.raised # None

\* The last call was start_playground_app_deploy with all of its parameters.
ApiCalled ==
    /\ deploy_call.op = "start_playground_app_deploy"
    /\ deploy_call.kwargs = Parameters

\* The artifact the last call found fails the validation of the claim: no
\* file, or a file strictly larger than 100*1024*1024 bytes.
InvalidArtifact ==
    IF deploy_call.file = <<>> THEN TRUE
    ELSE deploy_call.file[1] > 100 * 1024 * 1024

YieldedThisRound ==
    LET all == TextYielded(yielded)
        k == Len(TextsOf(SubSeq(script[round], 1, pos)))
    IN SubSeq(all, Len(all) - k + 1, Len(all))

\* The step in which a stream is exhausted with no tool call assembled.
EndsWithoutToolCalls ==
    mode = "stream" /\ LeavesRound /\ tool_calls_acc = <<>>

\* Once response_stream is done, the only thing that happens is the caller
\* starting another exchange.
NothingAfterDone ==
    (mode = "stream" /\ pc = "done") => (prev = <<>> /\ prev' # <<>>)

\* C24: when a stream ends with no tool call assembled, response_stream
\* appends exactly one assistant message, whose content is the
\* concatenation of the text fragments yielded in that round and which has
\* no content when no fragment arrived; it makes no further endpoint call
\* and yields nothing more.
C24_FinalMessageIsYieldedText ==
    /\ [][EndsWithoutToolCalls =>
            /\ messages' = Append(messages,
                  Message("assistant",
                          IF YieldedThisRound = <<>> THEN None
                          ELSE Concat(YieldedThisRound),
                          <<>>, None))
            /\ pc' = "done"
            /\ UNCHANGED <<calls, sent, yielded, executed>>]_vars
    /\ [][NothingAfterDone]_vars

\* C24 as the code has it: the message has no content when the yielded
\* fragments concatenate to the empty string, whether or not one arrived.
C24_FinalMessageIsNonEmptyYieldedText ==
    /\ [][EndsWithoutToolCalls =>
            /\ messages' = Append(messages,
                  Message("assistant",
                          IF Concat(YieldedThisRound) = "" THEN None
                          ELSE Concat(YieldedThisRound),
                          <<>>, None))
            /\ pc' = "done"
            /\ UNCHANGED <<calls, sent, yielded, executed>>]_vars
    /\ [][NothingAfterDone]_vars

\* A stream that ended after one empty fragment: the fragment was yielded,
\* the message has no content.
C24_Witness ==
    /\ mode = "stream" /\ pc = "done" /\ round = 1 /\ calls = 1
    /\ TextYielded(yielded) = <<"">>
    /\ Appended = <<Message("assistant", None, <<>>, None)>>

\* The steps of a deployment, in the order of the docstring.
StepOrder == <<"create", "upload", "wait", "cleanup">>

\* The last deployment created its artifact within the size limit, and the
\* remote API answers an upload with a valid response.
UploadAcceptable ==
    /\ deploy_call.op = "deploy_playground_app"
    /\ steps # <<>>
    /\ deploy_call.tar = "ok"
    /\ deploy_call.api = "valid"
    /\ artifact # <<>>
    /\ artifact[1] <= 100 * 1024 * 1024

\* The steps were started in order: upload only with the artifact on disk,
\* cleanup only after the upload returned.
C25_StepsInOrder ==
    deploy_call.op = "deploy_playground_app" =>
        /\ Len(steps) <= Len(StepOrder)
        /\ steps = SubSeq(StepOrder, 1, Len(steps))
        /\ Started("upload") => (artifact # <<>> /\ deploy_call.failed # "create")
        /\ Started("cleanup") => deploy_call.failed # "upload"

\* C25: deploy_playground_app starts its steps in the order create, upload,
\* wait, cleanup, and when the artifact was created and the remote API
\* accepts the upload, the last panel displayed is the info panel with the
\* status "Playground app deployed!", not an error panel.
C25_OrderedAndDeployed ==
    /\ C25_StepsInOrder
    /\ UploadAcceptable =>
           display[Len(display)] = StatusPanel("Playground app deployed!")

(***************************************************************************)
(* The playground routes: properties.                                      *)
(***************************************************************************)

\* The request answered in this step went to agent_session_delete.
DeleteRequested == route_call'.route = "agent_session_delete"

\* Before the request, the storage of the agent named in it holds the
\* session named in it, and returns it for the user named in it.
ReturnedForUser ==
    /\ route_call'.agent_id \in AgentIds
    /\ agent_storage[route_call'.agent_id] # <<>>
    /\ \E s \in agent_storage[route_call'.agent_id][1] :
           /\ s.session_id = route_call'.session_id
           /\ route_call'.user_id \in {None, s.user_id}

\* The stored sessions with the session of the request removed from the
\* storage of its agent.
WithoutSession ==
    [a \in AgentIds |->
        IF a = route_call'.agent_id
        THEN <<{s \in agent_storage[a][1] :
                   s.session_id # route_call'.session_id}>>
        ELSE agent_storage[a]]

\* C26: agent_session_delete deletes the session of the request, and
\* nothing else, when the agent's storage returns that session for the
\* user of the request; in every other case (unknown agent, agent without
\* storage, session of another user, unknown session) it answers 404 and
\* the stored sessions are unchanged.
C26_DeletesOnlyListedSession ==
    [][DeleteRequested =>
         IF ReturnedForUser
         THEN /\ route_call'.status_code = 200
              /\ agent_storage' = WithoutSession
         ELSE /\ route_call'.status_code = 404
              /\ agent_storage' = agent_storage]_vars

\* A user asked to delete another user's session: 404, and the session is
\* still stored.
C26_Witness ==
    /\ route_call.route = "agent_session_delete"
    /\ route_call.agent_id = "a1" /\ route_call.session_id = "s1"
    /\ route_call.user_id = "u1"
    /\ route_call.status_code = 404
    /\ agent_storage["a1"] = <<{[session_id |-> "s1", user_id |-> "u2"],
                               [session_id |-> "s2", user_id |-> "u1"]}>>

\* response runs with run_tools off and the endpoint has answered its call.
AnsweredWithoutTools ==
    /\ mode = "response" /\ ~run_tools
    /\ pc \in Ended /\ error # "transport"

\* C27: with run_tools false, response executes no tool and starts no
\* second round, whatever tool-call requests the endpoint's message
\* carries: once the endpoint has answered, response has made exactly one
\* endpoint call, has appended exactly one message, the assistant message,
\* and has returned that message's content.
C27_RunToolsOffSingleRound ==
    /\ (mode = "response" /\ ~run_tools) =>
           (executed = <<>> /\ calls <= 1 /\ round <= 1)
    /\ AnsweredWithoutTools =>
           /\ pc = "done"
           /\ calls = 1
           /\ Len(Appended) = 1
           /\ Appended[1].role = "assistant"
           /\ Appended[1].content = TextOf(script[1])
           /\ result = TextOf(script[1])

====
